---- MODULE Spec2Model ----
(***************************************************************************)
(* Model of the LED effect framework of examples/cpp/lib/effect.h:         *)
(* PixelInfo, Effect and EffectRunner (layout loading, the frame step in   *)
(* both variants, the rate limiting sleep and the main loop).              *)
(*                                                                         *)
(* Time is counted in units of 1/UnitsPerSecond seconds (10 ms), colour    *)
(* channels in units of 1/ChannelScale (tenths).  The float arithmetic of  *)
(* the source is modelled exactly on these grids.                          *)
(***************************************************************************)
EXTENDS Integers, Sequences, FiniteSets, TLC

VARIABLES
    minTimeDelta,   \* EffectRunner::minTimeDelta, in time units
    layout,         \* EffectRunner::layout, the rapidjson document
    effect,         \* EffectRunner::effect, NoEffect is the null pointer
    lastTime,       \* EffectRunner::lastTime, in time units
    frameBuffer,    \* EffectRunner::frameBuffer, a sequence of bytes
    pixelInfo,      \* EffectRunner::pixelInfo, a sequence of PixelInfo
    clock,          \* the wall clock read by gettimeofday
    running,        \* TRUE once run() has been entered
    argv,           \* the arguments main was called with, argv[1..argc-1]
    exitCode,       \* <<c>> once main has returned c, <<>> before
    lastStep        \* the last operation: name, argument, result, calls made

vars == <<minTimeDelta, layout, effect, lastTime, frameBuffer, pixelInfo,
          clock, running, argv, exitCode, lastStep>>

----------------------------------------------------------------------------
(* Bounds of the model *)

\* longest layout array explored
MaxPixels == 2

\* wall clock reading at construction (far from the zero of lastTime)
Epoch == 12

\* the clock is explored up to this reading
MaxClock == 24

\* longest command line explored: argc - 1
MaxArgs == 4

----------------------------------------------------------------------------
(* Representation *)

\* time units per second: one unit is 10 ms
UnitsPerSecond == 100

\* colour channel units per 1.0: one unit is 0.1
ChannelScale == 10

\* const float maxStep = 0.1
maxStep == UnitsPerSecond \div 10

\* sizeof(OPCClient::Header): channel, command, length[2]
HeaderSize == 4

\* OPCClient::SET_PIXEL_COLORS
SET_PIXEL_COLORS == 0

\* the null Effect pointer
NoEffect == "null"

\* the effects a caller may install
Effects == {"fx"}

\* frame rates handed to setMaxFrameRate
FrameRates == {10, 20}

\* time deltas handed to doFrame(float)
TimeDeltas == {0, 1, 5}

\* time deltas handed to doFrame(float) in the scheduling specification
SignedTimeDeltas == {-1, 0, 1, 5}

\* time one frame takes to render and write
RenderTimes == {0, 1}

\* time a caller lets pass between two calls
Pauses == {11}

\* amounts by which the system time is set back
ClockSteps == {3}

\* rgb triples an effect leaves in rgb[3], in tenths
Palette == << <<0, 10, 5>>, <<11, -1, 5>>, <<2, 8, 20>> >>

\* the one colour of the scheduling specification
TimePalette == << <<0, 10, 5>> >>

Min(a, b) == IF a < b THEN a ELSE b

Max(a, b) == IF a > b THEN a ELSE b

----------------------------------------------------------------------------
(* Layout files and the rapidjson document *)

\* a layout entry that is no object (null marks an unwired output)
EntryNull == [isObject |-> FALSE, point |-> <<>>]

\* a layout entry {"point": [1, 2]}
EntryPoint == [isObject |-> TRUE, point |-> <<1, 2>>]

Entries == {EntryNull, EntryPoint}

RECURSIVE SeqsUpTo(_, _)
SeqsUpTo(S, n) ==
    IF n = 0 THEN { <<>> }
    ELSE LET shorter == SeqsUpTo(S, n - 1)
         IN shorter \cup { Append(s, e) : s \in { t \in shorter : Len(t) = n - 1 }, e \in S }

\* a file that fopen cannot open
FileMissing == [exists |-> FALSE, wellFormed |-> FALSE, kind |-> "null", entries |-> <<>>]

\* a file whose content is not JSON
FileMalformed == [exists |-> TRUE, wellFormed |-> FALSE, kind |-> "null", entries |-> <<>>]

\* a file holding a JSON object at top level
FileObject == [exists |-> TRUE, wellFormed |-> TRUE, kind |-> "object", entries |-> <<>>]

FileArray(es) == [exists |-> TRUE, wellFormed |-> TRUE, kind |-> "array", entries |-> es]

Files == {FileMissing, FileMalformed, FileObject}
            \cup { FileArray(es) : es \in SeqsUpTo(Entries, MaxPixels) }

\* a default-constructed rapidjson::Document: a null value
NullDocument == [kind |-> "null", entries |-> <<>>, parseError |-> FALSE]

\* layout.ParseStream<0>(istr): the document is parsed in place; the old root
\* is dropped first, and a parse error leaves a null root with the error set
ParseStream(file) ==
    IF file.wellFormed
    THEN [kind |-> file.kind, entries |-> file.entries, parseError |-> FALSE]
    ELSE [kind |-> "null", entries |-> <<>>, parseError |-> TRUE]

HasParseError(doc) == doc.parseError

IsArray(doc) == doc.kind = "array"

Size(doc) == Len(doc.entries)

\* EffectRunner::hasLayout
hasLayout == IsArray(layout)

\* EffectRunner::getEffect
getEffect == effect

\* the layout files of the scheduling specification
TimeFiles == {FileMissing, FileObject, FileArray(<<EntryPoint>>), FileArray(<<EntryNull, EntryPoint>>)}

----------------------------------------------------------------------------
(* PixelInfo *)

\* PixelInfo::PixelInfo(index, layout): node is the position of the referenced
\* value in the document, live says the referenced value still exists
PixelInfo(index, doc) ==
    LET node == doc.entries[index + 1]
        point == IF node.isObject THEN node.point ELSE <<>>
    IN [x |-> IF Len(point) >= 1 THEN point[1] ELSE 0,
        y |-> IF Len(point) >= 2 THEN point[2] ELSE 0,
        z |-> IF Len(point) >= 3 THEN point[3] ELSE 0,
        index |-> index,
        layout |-> [node |-> index + 1, live |-> TRUE]]

\* parsing in place destroys the values the old PixelInfo refer to
Dangling(pixels) ==
    [i \in 1..Len(pixels) |-> [pixels[i] EXCEPT !.layout.live = FALSE]]

\* p.layout.IsObject(); reading a destroyed value may give either answer
IsObjectOutcomes(p) ==
    IF p.layout.live /\ p.layout.node <= Len(layout.entries)
    THEN {layout.entries[p.layout.node].isObject}
    ELSE BOOLEAN

----------------------------------------------------------------------------
(* Frame buffer *)

\* std::vector::resize: keeps the leading elements, zero-fills new ones
Resize(buf, n) == [i \in 1..n |-> IF i <= Len(buf) THEN buf[i] ELSE 0]

\* OPCClient::Header::init(channel, command, length), length big-endian 16 bit
HeaderInit(buf, channel, command, length) ==
    [buf EXCEPT ![1] = channel % 256,
                ![2] = command % 256,
                ![3] = (length \div 256) % 256,
                ![4] = length % 256]

\* one call made by a frame step: the function, its scalar argument, its data
Call(fn, a, data) == [fn |-> fn, a |-> a, data |-> data]

\* the record of an operation: its name, its result, the timeDelta of a frame
\* step, and the calls it made into the effect, the transport and usleep
Step(op, ret, td, calls) == [op |-> op, ret |-> ret, td |-> td, calls |-> calls]

\* a runner whose lastTime starts at the time of construction
InitLastTimeNow ==
    /\ minTimeDelta = 0
    /\ layout = NullDocument
    /\ effect = NoEffect
    /\ lastTime = Epoch
    /\ frameBuffer = <<>>
    /\ pixelInfo = <<>>
    /\ clock = Epoch
    /\ running = FALSE
    /\ argv = <<>>
    /\ exitCode = <<>>
    /\ lastStep = Step("construct", TRUE, 0, <<>>)

Init ==
    /\ minTimeDelta = 0
    /\ layout = NullDocument
    /\ effect = NoEffect
    /\ lastTime = 0
    /\ frameBuffer = <<>>
    /\ pixelInfo = <<>>
    /\ clock = Epoch
    /\ running = FALSE
    /\ argv = <<>>
    /\ exitCode = <<>>
    /\ lastStep = Step("construct", TRUE, 0, <<>>)

----------------------------------------------------------------------------
(* Configuration *)

\* EffectRunner::setMaxFrameRate: minTimeDelta = 1.0 / fps
MinTimeDeltaFor(fps) == UnitsPerSecond \div fps

SetMaxFrameRate(fps) ==
    /\ ~running
    /\ minTimeDelta' = MinTimeDeltaFor(fps)
    /\ lastStep' = Step("setMaxFrameRate", TRUE, 0, <<>>)
    /\ UNCHANGED <<layout, effect, lastTime, frameBuffer, pixelInfo, clock, running, argv, exitCode>>

\* EffectRunner::setEffect
SetEffect(e) ==
    /\ ~running
    /\ effect' = e
    /\ lastStep' = Step("setEffect", TRUE, 0, <<>>)
    /\ UNCHANGED <<minTimeDelta, layout, lastTime, frameBuffer, pixelInfo, clock, running, argv, exitCode>>

\* int frameBytes = layout.Size() * 3
FrameBytes(doc) == Size(doc) * 3

\* a frame buffer that is only ever grown
LayoutFrameBufferGrowOnly(buf, doc) ==
    HeaderInit(Resize(buf, Max(Len(buf), HeaderSize + FrameBytes(doc))), 0, SET_PIXEL_COLORS, FrameBytes(doc))

\* frameBuffer.resize(sizeof(Header) + frameBytes); Header::view(..).init(..)
LayoutFrameBuffer(buf, doc) ==
    HeaderInit(Resize(buf, HeaderSize + FrameBytes(doc)), 0, SET_PIXEL_COLORS, FrameBytes(doc))

\* the pixel list built without pixelInfo.clear()
LayoutPixelInfoNoClear(doc) ==
    pixelInfo \o [i \in 1..Size(doc) |-> PixelInfo(i - 1, doc)]

\* pixelInfo.clear(); for (i = 0; i < layout.Size(); i++) push_back(PixelInfo(i, layout[i]))
LayoutPixelInfo(doc) == [i \in 1..Size(doc) |-> PixelInfo(i - 1, doc)]

\* what setLayout returns once the file is open: the checks on the parsed member
LayoutAccepted(doc) == ~HasParseError(doc) /\ IsArray(doc)

\* EffectRunner::setLayout
SetLayout(file) ==
    /\ ~running
    /\ IF ~file.exists
       THEN /\ lastStep' = Step("setLayout", FALSE, 0, <<>>)
            /\ UNCHANGED <<layout, frameBuffer, pixelInfo>>
       ELSE LET doc == ParseStream(file)
            IN /\ layout' = doc
               /\ IF LayoutAccepted(doc)
                  THEN /\ frameBuffer' = LayoutFrameBuffer(frameBuffer, doc)
                       /\ pixelInfo' = LayoutPixelInfo(doc)
                       /\ lastStep' = Step("setLayout", TRUE, 0, <<>>)
                  ELSE /\ frameBuffer' = frameBuffer
                       /\ pixelInfo' = Dangling(pixelInfo)
                       /\ lastStep' = Step("setLayout", FALSE, 0, <<>>)
    /\ UNCHANGED <<minTimeDelta, effect, lastTime, clock, running, argv, exitCode>>

----------------------------------------------------------------------------
(* The frame step *)

\* conversion of the double num/den to int: truncation toward zero
ToInt(num, den) == IF num >= 0 THEN num \div den ELSE -((-num) \div den)

\* quantization without the + 0.5
QuantizeNoRound(c) ==
    Min(255, Max(0, ToInt(2 * 255 * c, 2 * ChannelScale)))

\* std::min<int>(255, std::max<int>(0, rgb[i] * 255 + 0.5)) for rgb[i] = c / ChannelScale
Quantize(c) ==
    Min(255, Max(0, ToInt(2 * 255 * c + ChannelScale, 2 * ChannelScale)))

\* a store that keeps the larger of the old and the new byte
StoreByteKeepMax(buf, dest, v) == [buf EXCEPT ![dest + 1] = Max(buf[dest + 1], v % 256)]

\* *(dest++) = v: the store into a uint8_t
StoreByte(buf, dest, v) == [buf EXCEPT ![dest + 1] = v % 256]

\* the stores starting one byte early, inside the header
DestStartOffByOne == HeaderSize - 1

\* uint8_t *dest = OPCClient::Header::view(frameBuffer).data(): offset of the payload
DestStart == HeaderSize

\* the three stores of one pixel in B, G, R order
StorePixelReversed(buf, dest, rgb) ==
    StoreByte(StoreByte(StoreByte(buf, dest, Quantize(rgb[3])),
                        dest + 1, Quantize(rgb[2])),
              dest + 2, Quantize(rgb[1]))

\* the three stores of one pixel, for (i = 0; i < 3; i++)
StorePixel(buf, dest, rgb) ==
    StoreByte(StoreByte(StoreByte(buf, dest, Quantize(rgb[1])),
                        dest + 1, Quantize(rgb[2])),
              dest + 2, Quantize(rgb[3]))

\* calculatePixel called for every pixel
CallsCalculatePixelAlways(p, isObject) == TRUE

\* whether the loop body calls effect->calculatePixel for pixel p
CallsCalculatePixel(p, isObject) == isObject

\* the loop over pixelInfo from its i-th element on: out[i] is what the effect
\* leaves in rgb for the i-th pixel, obj[i] the answer of p.layout.IsObject()
RECURSIVE PixelLoop(_, _, _, _, _, _)
PixelLoop(i, dest, buf, calls, out, obj) ==
    IF i > Len(pixelInfo)
    THEN [buf |-> buf, calls |-> calls]
    ELSE LET p == pixelInfo[i]
             called == CallsCalculatePixel(p, obj[i])
             rgb == IF called THEN out[i] ELSE <<0, 0, 0>>
             calls2 == IF called
                       THEN Append(calls, Call("calculatePixel", p.index, rgb))
                       ELSE calls
         IN PixelLoop(i + 1, dest + 3, StorePixel(buf, dest, rgb), calls2, out, obj)

\* nextFrame skipped when there is no pixel
BeforePixelsSkipEmpty(timeDelta) ==
    IF pixelInfo = <<>> THEN << >> ELSE << Call("nextFrame", timeDelta, <<>>) >>

\* the calls up to the pixel loop: effect->nextFrame(timeDelta)
BeforePixels(timeDelta) == << Call("nextFrame", timeDelta, <<>>) >>

\* sleeping the whole interval
SleepTimeFull(timeDelta) == minTimeDelta

\* the argument of usleep, in time units
SleepTime(timeDelta) == minTimeDelta - timeDelta

\* sleeping also when timeDelta equals minTimeDelta
SleepCallsInclusive(timeDelta) ==
    IF timeDelta <= minTimeDelta
    THEN << Call("usleep", SleepTime(timeDelta), <<>>) >>
    ELSE << >>

\* if (timeDelta < minTimeDelta) usleep(...)
SleepCalls(timeDelta) ==
    IF timeDelta < minTimeDelta
    THEN << Call("usleep", SleepTime(timeDelta), <<>>) >>
    ELSE << >>

\* returning early only when both are missing
IdleBothMissing == getEffect = NoEffect /\ ~hasLayout

\* if (!getEffect() || !hasLayout()) return
Idle == getEffect = NoEffect \/ ~hasLayout

\* the answers p.layout.IsObject() can give for every pixel of the list
ObjectAnswers == { f \in [1..Len(pixelInfo) -> BOOLEAN] :
                     \A i \in 1..Len(pixelInfo) : f[i] \in IsObjectOutcomes(pixelInfo[i]) }

\* time slept by the calls of a step
RECURSIVE Slept(_)
Slept(calls) ==
    IF calls = <<>> THEN 0
    ELSE (IF Head(calls).fn = "usleep" THEN Head(calls).a ELSE 0) + Slept(Tail(calls))

\* a transport write that is issued again when it failed
WriteCallsRetry(buf, ok) ==
    IF ok THEN << Call("write", 1, buf) >>
    ELSE << Call("write", 0, buf), Call("write", 0, buf) >>

\* opc.write(frameBuffer): one call, its result (ok) dropped
WriteCalls(buf, ok) == << Call("write", IF ok THEN 1 ELSE 0, buf) >>

\* EffectRunner::doFrame(float timeDelta), called as operation op; render is the
\* time the effect calls and the transport write take, ok what opc.write returns
FrameStep(op, timeDelta, out, obj, render, ok) ==
    IF Idle
    THEN /\ lastStep' = Step(op, TRUE, timeDelta, <<>>)
         /\ UNCHANGED <<frameBuffer, clock>>
    ELSE LET loop == PixelLoop(1, DestStart, frameBuffer, BeforePixels(timeDelta), out, obj)
             written == loop.calls \o WriteCalls(loop.buf, ok)
             calls == written \o SleepCalls(timeDelta)
         IN /\ clock + render + Slept(calls) <= MaxClock
            /\ frameBuffer' = loop.buf
            /\ clock' = clock + render + Slept(calls)
            /\ lastStep' = Step(op, TRUE, timeDelta, calls)

\* what an effect leaves in rgb[3] for every pixel of the list: the palette,
\* cycled over the pixels from any starting colour
EffectOutputs(palette) ==
    { [i \in 1..Len(pixelInfo) |-> palette[((i + k) % Len(palette)) + 1]] :
        k \in 0..(Len(palette) - 1) }

\* EffectRunner::doFrame(float) called by the user
DoFrameDelta(timeDelta, palette, renders, writes) ==
    /\ ~running
    /\ \E out \in EffectOutputs(palette), obj \in ObjectAnswers, render \in renders, ok \in writes :
          FrameStep("doFrameDelta", timeDelta, out, obj, render, ok)
    /\ UNCHANGED <<minTimeDelta, layout, effect, lastTime, pixelInfo, running, argv, exitCode>>

\* the delta without the maximum step
UnclampedDelta(now, last) == now - last

\* float delta = now - lastTime; if (delta > maxStep) delta = maxStep
ClampedDelta(now, last) == IF now - last > maxStep THEN maxStep ELSE now - last

\* EffectRunner::doFrame(): one call by the user, or one iteration of run()
DoFrame(palette, renders, writes) ==
    /\ LET now == clock
           delta == ClampedDelta(now, lastTime)
       IN /\ lastTime' = now
          /\ \E out \in EffectOutputs(palette), obj \in ObjectAnswers, render \in renders, ok \in writes :
                FrameStep("doFrame", delta, out, obj, render, ok)
    /\ UNCHANGED <<minTimeDelta, layout, effect, pixelInfo, running, argv, exitCode>>

\* EffectRunner::run: entering while (true) doFrame()
Run ==
    /\ ~running
    /\ running' = TRUE
    /\ lastStep' = Step("run", TRUE, 0, <<>>)
    /\ UNCHANGED <<minTimeDelta, layout, effect, lastTime, frameBuffer, pixelInfo, clock, argv, exitCode>>

\* time passing between two calls of the user
Elapse(d) ==
    /\ ~running
    /\ clock + d <= MaxClock
    /\ clock' = clock + d
    /\ lastStep' = Step("elapse", TRUE, 0, <<>>)
    /\ UNCHANGED <<minTimeDelta, layout, effect, lastTime, frameBuffer, pixelInfo, running, argv, exitCode>>

\* the system time being set back (gettimeofday reads the wall clock, which
\* an administrator or a time daemon may step), at any moment, also during run()
AdjustClock(d) ==
    /\ clock - d >= Epoch
    /\ clock' = clock - d
    /\ lastStep' = Step("adjustClock", TRUE, 0, <<>>)
    /\ UNCHANGED <<minTimeDelta, layout, effect, lastTime, frameBuffer, pixelInfo, running, argv, exitCode>>

----------------------------------------------------------------------------
(* main *)

\* the words a command line is made of
Words == {"-fps", "-layout", "-server", "10", "0", "good.json", "host"}

\* argv[1..argc-1]
CommandLines == SeqsUpTo(Words, MaxArgs)

\* atof: the leading number of the word, 0 when it has none
atof(word) == IF word = "10" THEN 10 ELSE 0

\* the file a name opens: one good layout exists, nothing else does
FileNamed(name) == IF name = "good.json" THEN FileArray(<<EntryPoint>>) ELSE FileMissing

\* the names opc.resolve can resolve
ResolvableHosts == {"host"}

\* EffectRunner::setServer: return opc.resolve(hostport)
setServer(hostport) == hostport \in ResolvableHosts

\* EffectRunner::usage: prints the usage line, returns 1
usage == 1

\* the members main changes through setMaxFrameRate and setLayout
Members == [minTimeDelta |-> minTimeDelta, layout |-> layout,
            frameBuffer |-> frameBuffer, pixelInfo |-> pixelInfo]

\* EffectRunner::setLayout on the members r: its result and the members after
SetLayoutResult(file, r) ==
    IF ~file.exists
    THEN [ret |-> FALSE, r |-> r]
    ELSE LET doc == ParseStream(file)
         IN IF LayoutAccepted(doc)
            THEN [ret |-> TRUE,
                  r |-> [r EXCEPT !.layout = doc,
                                  !.frameBuffer = LayoutFrameBuffer(r.frameBuffer, doc),
                                  !.pixelInfo = LayoutPixelInfo(doc)]]
            ELSE [ret |-> FALSE,
                  r |-> [r EXCEPT !.layout = doc,
                                  !.pixelInfo = Dangling(r.pixelInfo)]]

\* for (int i = 1; i < argc; i++) { ... }: exit is <<c>> when the loop
\* returned c, <<>> when it ran to its end; args[i] is argv[i]
RECURSIVE MainArgs(_, _, _)
MainArgs(args, i, r) ==
    IF i > Len(args) THEN [exit |-> <<>>, r |-> r]
    ELSE IF args[i] = "-fps" /\ i + 1 <= Len(args)
    THEN LET rate == atof(args[i + 1])
         IN IF rate <= 0
            THEN [exit |-> <<usage>>, r |-> r]
            ELSE MainArgs(args, i + 2, [r EXCEPT !.minTimeDelta = MinTimeDeltaFor(rate)])
    ELSE IF args[i] = "-layout" /\ i + 1 <= Len(args)
    THEN LET res == SetLayoutResult(FileNamed(args[i + 1]), r)
         IN IF ~res.ret
            THEN [exit |-> <<1>>, r |-> res.r]
            ELSE MainArgs(args, i + 2, res.r)
    ELSE IF args[i] = "-server" /\ i + 1 <= Len(args)
    THEN IF ~setServer(args[i + 1])
         THEN [exit |-> <<1>>, r |-> r]
         ELSE MainArgs(args, i + 2, r)
    ELSE [exit |-> <<usage>>, r |-> r]

\* a main that starts the loop without looking for a layout
MainExitNoLayoutCheck(parsed) == parsed.exit

\* what main returns after the argument loop: what the loop returned, or
\* usage() without a layout; <<>> when it goes on to run()
MainExit(parsed) ==
    IF parsed.exit # <<>> THEN parsed.exit
    ELSE IF ~IsArray(parsed.r.layout) THEN <<usage>>
    ELSE <<>>

\* EffectRunner::main(argc, argv) up to its return or its entry into run()
Main(args) ==
    /\ ~running
    /\ exitCode = <<>>
    /\ LET parsed == MainArgs(args, 1, Members)
           exit == MainExit(parsed)
       IN /\ minTimeDelta' = parsed.r.minTimeDelta
          /\ layout' = parsed.r.layout
          /\ frameBuffer' = parsed.r.frameBuffer
          /\ pixelInfo' = parsed.r.pixelInfo
          /\ argv' = args
          /\ exitCode' = exit
          /\ running' = (exit = <<>>)
          /\ lastStep' = Step("main", exit = <<>>, 0, <<>>)
    /\ UNCHANGED <<effect, lastTime, clock>>

----------------------------------------------------------------------------
(* Spec: layout loading and rendering, over every layout file and both     *)
(* results of the transport write, with the frame rate unlimited and       *)
(* frames that take no measurable time.                                    *)

Next ==
    \/ \E e \in Effects \cup {NoEffect} : SetEffect(e)
    \/ \E file \in Files : SetLayout(file)
    \/ \E timeDelta \in TimeDeltas : DoFrameDelta(timeDelta, Palette, {0}, BOOLEAN)
    \/ DoFrame(Palette, {0}, BOOLEAN)
    \/ Run

Spec == Init /\ [][Next]_vars

----------------------------------------------------------------------------
(* SpecTime: frame scheduling and rate limiting, over a few layout files   *)
(* and one colour pattern, with the clock advancing and being set back.    *)

NextTime ==
    \/ \E fps \in FrameRates : SetMaxFrameRate(fps)
    \/ \E e \in Effects \cup {NoEffect} : SetEffect(e)
    \/ \E file \in TimeFiles : SetLayout(file)
    \/ \E timeDelta \in SignedTimeDeltas : DoFrameDelta(timeDelta, TimePalette, RenderTimes, {TRUE})
    \/ DoFrame(TimePalette, RenderTimes, {TRUE})
    \/ Run
    \/ \E d \in Pauses : Elapse(d)
    \/ \E d \in ClockSteps : AdjustClock(d)

SpecTime == Init /\ [][NextTime]_vars

----------------------------------------------------------------------------
(* SpecMain: a program that sets an effect, may load a layout and render a *)
(* frame itself, then calls main with every short command line; the frames *)
(* of run() see both results of the transport write.  Nothing happens      *)
(* after main has returned.                                                *)

NextMain ==
    /\ exitCode = <<>>
    /\ \/ \E e \in Effects : SetEffect(e)
       \/ SetLayout(FileArray(<<EntryPoint>>))
       \/ \E timeDelta \in TimeDeltas : DoFrameDelta(timeDelta, TimePalette, {0}, BOOLEAN)
       \/ \E args \in CommandLines : Main(args)
       \/ DoFrame(TimePalette, {0}, BOOLEAN)

SpecMain == Init /\ [][NextMain]_vars

----------------------------------------------------------------------------
(* Properties *)

\* the operations that are frame steps
FrameOps == {"doFrame", "doFrameDelta"}

\* the last operation was a frame step that rendered (it was not idle)
Rendered == lastStep.op \in FrameOps /\ lastStep.calls # <<>>

\* the positions of the calls to fn in a sequence of calls
CallsTo(calls, fn) == { k \in DOMAIN calls : calls[k].fn = fn }

\* C1: whenever setLayout returns false, the layout document, hasLayout(),
\* the pixel list and the frame buffer are exactly as they were before the call.
C1_FailedSetLayoutKeepsState ==
    [][ (lastStep'.op = "setLayout" /\ ~lastStep'.ret)
          => /\ layout'.kind = layout.kind
             /\ layout'.entries = layout.entries
             /\ IsArray(layout') = IsArray(layout)
             /\ pixelInfo' = pixelInfo
             /\ frameBuffer' = frameBuffer ]_vars

\* C2: with minTimeDelta > 0, the starts of two consecutive rendering frame
\* steps of run() are at least minTimeDelta apart.  In an iteration of run()
\* clock is the start of this frame step and lastTime the start of the last.
C2_MinFrameInterval ==
    [][ ( /\ running /\ Rendered /\ lastStep.op = "doFrame"
          /\ lastStep'.op = "doFrame" /\ lastStep'.calls # <<>>
          /\ minTimeDelta > 0 )
          => clock - lastTime >= minTimeDelta ]_vars

\* C3: a frame step taken while no effect is set or no layout is loaded calls
\* nothing (effect, transport, usleep), leaves the frame buffer as it is and
\* lets no time pass.
C3_IdleFrameStepIsNoOp ==
    [][ (lastStep'.op \in FrameOps /\ (effect = NoEffect \/ layout.kind # "array"))
          => /\ lastStep'.calls = <<>>
             /\ frameBuffer' = frameBuffer
             /\ clock' = clock ]_vars

\* C3 happens: an idle frame step with an effect set, a frame rate limit that
\* would make it sleep, and the pixels of a layout lost to a failed setLayout
C3_Witness ==
    /\ lastStep.op \in FrameOps
    /\ effect # NoEffect
    /\ layout.kind # "array"
    /\ pixelInfo # <<>>
    /\ lastStep.td < minTimeDelta
    /\ lastStep.calls = <<>>

\* C4: after a successful setLayout on an array of N entries the pixel list
\* has N elements with indices 0..N-1 in order, the frame buffer has
\* HeaderSize + 3N bytes, and the header holds the set-pixel-colors command
\* and the payload length 3N.
C4_LayoutLoaded ==
    (lastStep.op = "setLayout" /\ lastStep.ret)
      => LET N == Len(layout.entries)
         IN /\ layout.kind = "array"
            /\ Len(pixelInfo) = N
            /\ \A i \in 1..N : pixelInfo[i].index = i - 1
            /\ Len(frameBuffer) = HeaderSize + 3 * N
            /\ frameBuffer[2] = SET_PIXEL_COLORS
            /\ frameBuffer[3] * 256 + frameBuffer[4] = 3 * N

\* C4 happens: a reload, over a buffer that holds the bytes of a rendered frame
C4_Witness ==
    /\ lastStep.op = "setLayout" /\ lastStep.ret
    /\ Len(pixelInfo) = 2
    /\ \E i \in DOMAIN frameBuffer : i > HeaderSize /\ frameBuffer[i] = 255

\* the byte b is channel c/ChannelScale quantized: clamp(trunc(c*255 + 0.5)),
\* stated on 2 * ChannelScale * (c*255 + 0.5) = 2 * 255 * c + ChannelScale
IsQuantized(c, b) ==
    LET v == 2 * 255 * c + ChannelScale
        d == 2 * ChannelScale
    IN /\ b \in 0..255
       /\ (v < d) => b = 0
       /\ (v >= 255 * d) => b = 255
       /\ (v >= 0 /\ v < 255 * d) => (b * d <= v /\ v < (b + 1) * d)

\* C5: each byte a frame step writes for a pixel the effect coloured is the
\* quantized channel, with 0.0 -> 0, 1.0 -> 255, -0.1 -> 0, 1.1 -> 255 and
\* 0.5 -> 128, and every payload byte is in 0..255.
C5_Quantization ==
    Rendered =>
      /\ \A i \in (HeaderSize + 1)..Len(frameBuffer) : frameBuffer[i] \in 0..255
      /\ \A k \in CallsTo(lastStep.calls, "calculatePixel") :
           \A j \in 1..3 :
             LET c == lastStep.calls[k].data[j]
                 b == frameBuffer[HeaderSize + 3 * lastStep.calls[k].a + j]
             IN /\ IsQuantized(c, b)
                /\ (c = 0) => (b = 0)
                /\ (c = 10) => (b = 255)
                /\ (c = -1) => (b = 0)
                /\ (c = 11) => (b = 255)
                /\ (c = 5) => (b = 128)

\* C5 happens: a frame with a channel below 0, one above 1 and one at 0.5
C5_Witness ==
    /\ Rendered
    /\ \E k \in CallsTo(lastStep.calls, "calculatePixel") :
         lastStep.calls[k].data = <<11, -1, 5>>

\* C6: doFrame() hands min(now - lastTime, 0.1 s) to the time-delta frame
\* step, and that is the timeDelta the effect sees.
C6_ClampedDelta ==
    [][ (lastStep'.op = "doFrame")
          => LET elapsed == clock - lastTime
             IN /\ (elapsed >= maxStep) => (lastStep'.td = maxStep)
                /\ (elapsed <= maxStep) => (lastStep'.td = elapsed)
                /\ (lastStep'.calls # <<>>) =>
                      lastStep'.calls[1] = Call("nextFrame", lastStep'.td, <<>>) ]_vars

\* C6 happens: a rendering doFrame() after the first, with the delta clamped
C6_Witness ==
    /\ Rendered /\ lastStep.op = "doFrame"
    /\ lastStep.td = maxStep
    /\ lastTime > Epoch

\* C7: a rendering frame step with timeDelta < minTimeDelta sleeps once, for
\* minTimeDelta - timeDelta, as its last call; with timeDelta >= minTimeDelta
\* it does not sleep.
C7_RateLimitSleep ==
    Rendered =>
      LET calls == lastStep.calls
          sleeps == CallsTo(calls, "usleep")
      IN /\ (lastStep.td < minTimeDelta) =>
               /\ sleeps = {Len(calls)}
               /\ calls[Len(calls)].a = minTimeDelta - lastStep.td
         /\ (lastStep.td >= minTimeDelta) => sleeps = {}

\* C7 happens: minTimeDelta 0.05 s, timeDelta 0.01 s, a sleep of 0.04 s
C7_Witness ==
    /\ Rendered
    /\ minTimeDelta = 5 /\ lastStep.td = 1
    /\ lastStep.calls[Len(lastStep.calls)] = Call("usleep", 4, <<>>)

\* C8: a rendering frame step writes (0,0,0) for every layout entry that is no
\* object and never calls calculatePixel for it, the entry keeping its index
\* and its 3-byte slot; it calls calculatePixel exactly once for every entry
\* that is an object.
C8_InactivePixels ==
    Rendered =>
      /\ Len(frameBuffer) = HeaderSize + 3 * Len(layout.entries)
      /\ \A i \in 1..Len(layout.entries) :
           LET mine == { k \in CallsTo(lastStep.calls, "calculatePixel") :
                           lastStep.calls[k].a = i - 1 }
           IN IF layout.entries[i].isObject
              THEN Cardinality(mine) = 1
              ELSE /\ mine = {}
                   /\ pixelInfo[i].index = i - 1
                   /\ SubSeq(frameBuffer, HeaderSize + 3 * i - 2, HeaderSize + 3 * i) = <<0, 0, 0>>

\* C8 happens: a frame over a layout with an unwired entry and a wired one
C8_Witness ==
    /\ Rendered
    /\ layout.entries = <<EntryNull, EntryPoint>>
    /\ SubSeq(frameBuffer, HeaderSize + 1, HeaderSize + 6) = <<0, 0, 0, 255, 0, 128>>

\* C9: a frame step with an effect set and a layout loaded calls nextFrame
\* exactly once, with the step's timeDelta, before every calculatePixel call,
\* whatever the number of pixels.
C9_NextFrameOnceFirst ==
    (lastStep.op \in FrameOps /\ effect # NoEffect /\ layout.kind = "array")
      => /\ lastStep.calls # <<>>
         /\ CallsTo(lastStep.calls, "nextFrame") = {1}
         /\ lastStep.calls[1].a = lastStep.td
         /\ \A k \in CallsTo(lastStep.calls, "calculatePixel") : k > 1

\* C9 happens: a frame over a layout of zero entries
C9_Witness ==
    /\ lastStep.op \in FrameOps /\ effect # NoEffect
    /\ layout.kind = "array" /\ layout.entries = <<>>
    /\ lastStep.td = 5
    /\ CallsTo(lastStep.calls, "nextFrame") = {1}

\* C10: frame steps, setEffect and setMaxFrameRate change neither the header
\* bytes nor the length of the frame buffer, and while a layout is loaded the
\* header declares the payload length 3N.
C10_HeaderStable ==
    [][ /\ (lastStep'.op \in FrameOps \cup {"setEffect", "setMaxFrameRate"})
            => /\ Len(frameBuffer') = Len(frameBuffer)
               /\ \A i \in 1..HeaderSize :
                    i <= Len(frameBuffer) => frameBuffer'[i] = frameBuffer[i]
        /\ (layout'.kind = "array")
            => /\ Len(frameBuffer') = HeaderSize + 3 * Len(layout'.entries)
               /\ frameBuffer'[3] * 256 + frameBuffer'[4] = 3 * Len(layout'.entries) ]_vars

\* C10 happens: a frame has been rendered into the payload
C10_Witness ==
    /\ Rendered
    /\ Len(frameBuffer) = HeaderSize + 6
    /\ SubSeq(frameBuffer, 1, HeaderSize) = <<0, 0, 0, 6>>
    /\ frameBuffer[HeaderSize + 5] = 255

\* the rgb the effect left for the pixel of index a in a sequence of calls:
\* the data of its calculatePixel call, {0,0,0} when it has none
RgbOf(calls, a) ==
    LET mine == { k \in CallsTo(calls, "calculatePixel") : calls[k].a = a }
    IN IF mine = {} THEN <<0, 0, 0>> ELSE calls[CHOOSE k \in mine : TRUE].data

\* the calls into calculatePixel of a sequence of calls, in order
RECURSIVE PixelCalls(_)
PixelCalls(calls) ==
    IF calls = <<>> THEN <<>>
    ELSE (IF Head(calls).fn = "calculatePixel" THEN <<Head(calls)>> ELSE <<>>)
           \o PixelCalls(Tail(calls))

\* C11: after a rendering frame step each of the 3N payload bytes is the
\* quantized output of the effect in that step (black where the effect was not
\* asked), whatever the buffer held before; a step with timeDelta 0 after a
\* rendering step with the same effect outputs leaves the buffer as it is.
C11_PayloadFromOutputs ==
    [][ (lastStep'.op \in FrameOps /\ lastStep'.calls # <<>>)
          => /\ Len(frameBuffer') = HeaderSize + 3 * Len(layout'.entries)
             /\ \A i \in 1..Len(layout'.entries) : \A j \in 1..3 :
                  IsQuantized(RgbOf(lastStep'.calls, i - 1)[j],
                              frameBuffer'[HeaderSize + 3 * (i - 1) + j])
             /\ ( /\ Rendered
                  /\ lastStep'.td = 0
                  /\ PixelCalls(lastStep'.calls) = PixelCalls(lastStep.calls) )
                  => frameBuffer' = frameBuffer ]_vars

\* C11 happens: a frame with timeDelta 0 over two pixels, one of them unwired
C11_Witness ==
    /\ Rendered /\ lastStep.op = "doFrameDelta" /\ lastStep.td = 0
    /\ layout.entries = <<EntryPoint, EntryNull>>
    /\ SubSeq(frameBuffer, HeaderSize + 1, HeaderSize + 6) = <<51, 204, 255, 0, 0, 0>>

\* C15: a rendering frame step leaves the bytes of every pixel of the list at
\* HeaderSize + 3 * index .. HeaderSize + 3 * index + 2, in R, G, B order, index
\* being the pixel's index field, and no pixel's bytes anywhere else: the
\* slots are disjoint, inside the payload, and cover it.
C15_PixelSlots ==
    Rendered =>
      /\ \A i \in 1..Len(pixelInfo) :
           LET index == pixelInfo[i].index
               rgb == RgbOf(lastStep.calls, index)
               slot == HeaderSize + 3 * index
           IN /\ slot + 3 <= Len(frameBuffer)
              /\ IsQuantized(rgb[1], frameBuffer[slot + 1])
              /\ IsQuantized(rgb[2], frameBuffer[slot + 2])
              /\ IsQuantized(rgb[3], frameBuffer[slot + 3])
      /\ \A i, k \in 1..Len(pixelInfo) :
           i # k => pixelInfo[i].index # pixelInfo[k].index
      /\ Len(frameBuffer) = HeaderSize + 3 * Len(pixelInfo)
      /\ SubSeq(frameBuffer, 1, HeaderSize) = <<0, SET_PIXEL_COLORS, 0, 3 * Len(pixelInfo)>>

\* C15 happens: two wired pixels with different colours, each in its slot
C15_Witness ==
    /\ Rendered
    /\ Len(pixelInfo) = 2
    /\ RgbOf(lastStep.calls, 0) = <<11, -1, 5>>
    /\ RgbOf(lastStep.calls, 1) = <<2, 8, 20>>
    /\ SubSeq(frameBuffer, HeaderSize + 1, HeaderSize + 6) = <<255, 0, 128, 51, 204, 255>>

\* C16: whenever hasLayout() is true the pixel list is as long as the layout
\* array, every pixel's index is its position, the frame buffer has
\* HeaderSize + 3 * (pixel list length) bytes, and every pixel refers to a
\* value of the current document.
C16_LayoutInvariant ==
    (layout.kind = "array") =>
      /\ Len(pixelInfo) = Len(layout.entries)
      /\ \A i \in 1..Len(pixelInfo) :
           /\ pixelInfo[i].index = i - 1
           /\ pixelInfo[i].layout.live
           /\ pixelInfo[i].layout.node = i
      /\ Len(frameBuffer) = HeaderSize + 3 * Len(pixelInfo)

\* C16 happens: a layout of one pixel loaded over the buffer of a longer one
\* that had been rendered
C16_Witness ==
    /\ layout.kind = "array" /\ Len(pixelInfo) = 1
    /\ lastStep.op = "setLayout" /\ lastStep.ret
    /\ effect # NoEffect
    /\ Len(frameBuffer) = HeaderSize + 3
    /\ frameBuffer[HeaderSize + 2] = 255

\* C12: every doFrame() records the time it sampled as lastTime, idle or not,
\* samples a time no earlier than the one recorded before, and in run() hands
\* on a timeDelta in [0, 0.1 s].
C12_MonotoneTimestamps ==
    [][ (lastStep'.op = "doFrame")
          => /\ lastTime' = clock
             /\ clock >= lastTime
             /\ running => (0 <= lastStep'.td /\ lastStep'.td <= maxStep) ]_vars

\* C17 as claimed: with minTimeDelta at its initial 0 no frame step sleeps,
\* whatever its timeDelta.
C17_NeverSleepsWhenUnlimited ==
    (minTimeDelta = 0 /\ lastStep.op \in FrameOps)
      => CallsTo(lastStep.calls, "usleep") = {}

\* C17 as amended: with minTimeDelta at its initial 0 no frame step with a
\* timeDelta of at least 0 sleeps.
C17_NoSleepUnlessNegative ==
    (minTimeDelta = 0 /\ lastStep.op \in FrameOps /\ lastStep.td >= 0)
      => CallsTo(lastStep.calls, "usleep") = {}

\* C17 happens: a rendering frame step with timeDelta 0 and no rate limit
C17_Witness ==
    /\ Rendered
    /\ minTimeDelta = 0
    /\ lastStep.td = 0
    /\ lastStep.calls[Len(lastStep.calls)].fn = "write"

\* C18: lastTime is 0 after construction and only doFrame() changes it, so
\* the first doFrame() (the one that finds lastTime = 0) hands on exactly
\* maxStep, which is the timeDelta the effect sees.
C18_FirstFrameDelta ==
    /\ lastTime = 0
    /\ [][ /\ (lastTime' # lastTime) => (lastStep'.op = "doFrame")
           /\ (lastStep'.op = "doFrame" /\ lastTime = 0)
                => /\ lastStep'.td = maxStep
                   /\ (lastStep'.calls # <<>>)
                        => lastStep'.calls[1] = Call("nextFrame", maxStep, <<>>) ]_vars

\* C18 happens: a rendering doFrame() called late, with the clamped delta
C18_Witness ==
    /\ Rendered /\ lastStep.op = "doFrame"
    /\ lastTime >= Epoch + 11
    /\ ~running
    /\ lastStep.calls[1] = Call("nextFrame", maxStep, <<>>)

\* a flag and its value that main accepts
ValidPair(flag, value) ==
    \/ flag = "-fps" /\ atof(value) > 0
    \/ flag = "-layout" /\ value = "good.json"
    \/ flag = "-server" /\ value \in ResolvableHosts

\* a command line without any configuration or usage failure in its arguments
ValidArgs(args) ==
    /\ Len(args) % 2 = 0
    /\ \A k \in 1..Len(args) : (k % 2 = 1) => ValidPair(args[k], args[k + 1])

\* the command line names a layout
NamesLayout(args) == \E k \in 1..Len(args) : k % 2 = 1 /\ args[k] = "-layout"

\* C13: main returns 1 on every configuration or usage failure (a rate that
\* is not positive, a layout that does not load, a server that does not
\* resolve, an unknown argument, a flag without value, no layout at the end)
\* and returns on no other path: otherwise it enters run() with a layout
\* loaded, and run() is never left.
C13_MainExit ==
    /\ [][ (lastStep'.op = "main")
            => IF ValidArgs(argv') /\ (hasLayout \/ NamesLayout(argv'))
               THEN running' /\ exitCode' = <<>> /\ IsArray(layout')
               ELSE ~running' /\ exitCode' = <<1>> ]_vars
    /\ [][ running => (running' /\ exitCode' = <<>> /\ lastStep'.op = "doFrame") ]_vars

\* C13 happens: main applied -fps, then returned 1 for a layout that did not load
C13_Witness ==
    /\ lastStep.op = "main"
    /\ exitCode = <<1>>
    /\ Len(argv) = 4 /\ argv[1] = "-fps" /\ argv[3] = "-layout"
    /\ minTimeDelta = MinTimeDeltaFor(10)

\* C14: a rendering frame step calls the transport write exactly once, with
\* the whole frame buffer as the step leaves it, after every call into the
\* effect and before any usleep; whatever the write returned, the step
\* sleeps by the same rule and changes nothing but the frame buffer, the
\* clock and (doFrame()) lastTime.
C14_WriteOnce ==
    [][ (lastStep'.op \in FrameOps /\ lastStep'.calls # <<>>)
          => LET calls == lastStep'.calls
                 writes == CallsTo(calls, "write")
             IN /\ Cardinality(writes) = 1
                /\ \A w \in writes :
                      /\ calls[w].data = frameBuffer'
                      /\ Len(calls[w].data) = HeaderSize + 3 * Len(pixelInfo)
                      /\ \A k \in 1..(w - 1) : calls[k].fn \in {"nextFrame", "calculatePixel"}
                      /\ \A k \in (w + 1)..Len(calls) : calls[k].fn = "usleep"
                      /\ (w < Len(calls)) <=> (lastStep'.td < minTimeDelta)
                /\ <<minTimeDelta', layout', effect', pixelInfo', running', exitCode'>>
                     = <<minTimeDelta, layout, effect, pixelInfo, running, exitCode>>
                /\ lastTime' = (IF lastStep'.op = "doFrame" THEN clock ELSE lastTime)
                /\ clock' = clock + Slept(calls) ]_vars

\* C14 happens: a frame of run() whose write failed and that then slept
C14_Witness ==
    /\ running /\ Rendered
    /\ \E w \in CallsTo(lastStep.calls, "write") :
          /\ lastStep.calls[w].a = 0
          /\ w + 1 = Len(lastStep.calls)
          /\ lastStep.calls[w + 1].fn = "usleep"

====
